---------------------------- MODULE Spec2Model ----------------------------
(***************************************************************************)
(* Model of the FEAST_PtE Bridger LiDAR survey scripts                     *)
(*   src/MyCodetoRun/bridger_spatial_survey.py   (DBSCAN clusters, the     *)
(*                                                quarterly survey run)    *)
(*   src/MyCodetoRun/bridger_survey_realistic.py (flat 20% survey run)     *)
(*   src/MyCodetoRun/survey_strategy_summary.py  (strategy arithmetic)     *)
(*                                                                         *)
(* Real numbers are fixed-point integers: a quantity x (kg/h, m/s, a       *)
(* probability, a percentage, a fraction) is held as floor(x * Scale).     *)
(* A float that may be NaN or infinite is a record [k, v] (see Num).       *)
(***************************************************************************)
EXTENDS Integers, Sequences, FiniteSets, TLC

VARIABLES
    pc,              \* position of the running script / status of the last call
    gdf,             \* the portfolio: a sequence of sites [lat, lon, e]
    tmy,             \* the TMY wind file as the sampler finds it
    cluster_labels,  \* labels returned by cluster_wells_dbscan (one per site)
    centroids,       \* centroids returned by cluster_wells_dbscan: id -> <<lat, lon>>
    stats,           \* scalars main() derives (averages, percentages, loop counter)
    result,          \* the result dict of the last survey event
    event,           \* bookkeeping of the last survey event (what was drawn and counted)
    args,            \* arguments of the last call of a pure function
    ret              \* its return value

vars == <<pc, gdf, tmy, cluster_labels, centroids, stats, result, event, args, ret>>

-----------------------------------------------------------------------------
(* Fixed-point arithmetic                                                  *)

Scale == 10^3

Abs(x) == IF x < 0 THEN -x ELSE x

Min2(a, b) == IF a <= b THEN a ELSE b

Max2(a, b) == IF a >= b THEN a ELSE b

\* a * b / Scale for a >= 0, split so that no intermediate leaves 32 bits
MulPos(a, b) == (a \div Scale) * b + ((a % Scale) * b) \div Scale

MulFP(a, b) == IF a < 0 THEN -MulPos(-a, b) ELSE MulPos(a, b)

RECURSIVE DivDigits(_, _, _)
\* floor(r * 10^n / b) for 0 <= r < b, by long division
DivDigits(r, b, n) ==
    IF n = 0 THEN 0
    ELSE ((r * 10) \div b) * 10^(n - 1) + DivDigits((r * 10) % b, b, n - 1)

\* a / b in fixed point, for a >= 0 and b > 0
DivPos(a, b) == (a \div b) * Scale + DivDigits(a % b, b, 3)

DivFP(a, b) ==
    IF (a < 0) = (b < 0) THEN DivPos(Abs(a), Abs(b)) ELSE -DivPos(Abs(a), Abs(b))

RECURSIVE SumSeq(_)
SumSeq(s) == IF Len(s) = 0 THEN 0 ELSE Head(s) + SumSeq(Tail(s))

\* A float that can be NaN or infinite: [k |-> "num" | "nan" | "inf", v |-> value]
Num(v) == [k |-> "num", v |-> v]

NaN == [k |-> "nan", v |-> 0]

Inf == [k |-> "inf", v |-> 0]

\* numpy float64 division: x/0 is inf, 0/0 is nan (a RuntimeWarning, no exception)
NpDivide(a, b) ==
    IF b # 0 THEN Num(DivFP(a, b))
    ELSE IF a = 0 THEN NaN ELSE Inf

-----------------------------------------------------------------------------
(* np.exp and np.log in fixed point                                        *)

EulerFP == (2718 * Scale) \div 1000

Ln2FP == (693 * Scale) \div 1000

RECURSIVE ExpSeries(_, _, _)
\* sum of the Taylor terms x^k / k! from term k on, for 0 <= x < Scale
ExpSeries(x, k, term) ==
    IF term = 0 \/ k > 12 THEN 0
    ELSE term + ExpSeries(x, k + 1, (term * x) \div (k * Scale))

RECURSIVE ExpPos(_)
ExpPos(x) ==
    IF x >= Scale THEN MulPos(ExpPos(x - Scale), EulerFP)
    ELSE ExpSeries(x, 1, Scale)

ExpFP(x) == IF x >= 0 THEN ExpPos(x) ELSE (Scale * Scale) \div ExpPos(-x)

\* ln on [Scale, 2*Scale): 2 * atanh((x-1)/(x+1))
LnSeries(x) ==
    LET y  == ((x - Scale) * Scale) \div (x + Scale)
        y2 == (y * y) \div Scale
        y3 == (y * y2) \div Scale
        y5 == (y3 * y2) \div Scale
        y7 == (y5 * y2) \div Scale
    IN  2 * (y + y3 \div 3 + y5 \div 5 + y7 \div 7)

RECURSIVE LnFP(_)
\* np.log(x) for x > 0
LnFP(x) ==
    IF x >= 2 * Scale THEN Ln2FP + LnFP(x \div 2)
    ELSE IF x < Scale THEN LnFP(2 * x) - Ln2FP
    ELSE LnSeries(x)

Clip(x, lo, hi) == IF x < lo THEN lo ELSE IF x > hi THEN hi ELSE x

-----------------------------------------------------------------------------
(* Constants of the scripts                                                *)

POD_90_KGPH == (127 * Scale) \div 100

POD_90_GPS == (127 * Scale) \div 100

LOGISTIC_STEEPNESS == 2

BASELINE_WIND_MS == (35 * Scale) \div 10

\* WIND_EXPONENT = -0.3
WIND_EXPONENT == -((3 * Scale) \div 10)

MIN_WIND_MS == 1 * Scale

MAX_WIND_MS == 6 * Scale

-----------------------------------------------------------------------------
(* Detection model                                                         *)

\* a detection model that takes the ratio of the emission rate to the adjusted
\* threshold as the probability, with no logistic curve, no guard and no clip
pod_bridger_ratio(emission_rate_kgph, wind_speed_ms) ==
    LET wind_factor == ExpFP(MulFP(WIND_EXPONENT, wind_speed_ms - BASELINE_WIND_MS))
        adjusted_threshold == MulFP(POD_90_KGPH, wind_factor)
    IN  DivFP(emission_rate_kgph, adjusted_threshold)

\* bridger_spatial_survey.pod_bridger
pod_bridger(emission_rate_kgph, wind_speed_ms) ==
    LET wind_factor == ExpFP(MulFP(WIND_EXPONENT, wind_speed_ms - BASELINE_WIND_MS))
        adjusted_threshold == MulFP(POD_90_KGPH, wind_factor)
    IN  IF emission_rate_kgph <= 0 THEN 0
        ELSE LET log_e == LnFP(emission_rate_kgph)
                 log_threshold == LnFP(adjusted_threshold)
                 exponent == LOGISTIC_STEEPNESS * (log_e - log_threshold)
                 pod == (Scale * Scale) \div (Scale + ExpFP(-exponent))
             IN  Clip(pod, 0, Scale)

\* a detection model with the sign of the logistic exponent flipped:
\* 1.0 / (1.0 + np.exp(exponent))
pod_bridger_sign_flipped(emission_rate_kgph, wind_speed_ms) ==
    LET wind_factor == ExpFP(MulFP(WIND_EXPONENT, wind_speed_ms - BASELINE_WIND_MS))
        adjusted_threshold == MulFP(POD_90_GPS, wind_factor)
    IN  IF emission_rate_kgph <= 0 THEN 0
        ELSE LET log_e == LnFP(emission_rate_kgph)
                 log_threshold == LnFP(adjusted_threshold)
                 exponent == LOGISTIC_STEEPNESS * (log_e - log_threshold)
                 pod == (Scale * Scale) \div (Scale + ExpFP(exponent))
             IN  Clip(pod, 0, Scale)

\* bridger_survey_realistic.pod_bridger
pod_bridger_realistic(emission_rate_kgph, wind_speed_ms) ==
    LET wind_factor == ExpFP(MulFP(WIND_EXPONENT, wind_speed_ms - BASELINE_WIND_MS))
        adjusted_threshold == MulFP(POD_90_GPS, wind_factor)
    IN  IF emission_rate_kgph <= 0 THEN 0
        ELSE LET log_e == LnFP(emission_rate_kgph)
                 log_threshold == LnFP(adjusted_threshold)
                 exponent == LOGISTIC_STEEPNESS * (log_e - log_threshold)
                 pod == (Scale * Scale) \div (Scale + ExpFP(-exponent))
             IN  Clip(pod, 0, Scale)

-----------------------------------------------------------------------------
(* Bounds of the model                                                     *)

\* np.random.uniform(MIN_WIND_MS, MAX_WIND_MS) is drawn from WindPoints + 1 grid values
WindPoints == 2

\* longest wind series enumerated for the TMY file
MaxSeriesLen == 2

\* longest horizon, in years, handed to calculate_strategy
MaxYears == 5

\* most pairs of neighbouring sites, and most isolated sites, in a portfolio
MaxPairs == 5

MaxNoise == 1

\* most wells in the emissions frame of the flat (realistic) survey run
MaxWells == 6

\* longest cluster id list handed to simulate_quarterly_survey by a direct caller
MaxListLen == 2

-----------------------------------------------------------------------------
(* Values the variables hold when no call has produced them                *)

NoResult == [kind |-> "none"]

NoEvent == [kind |-> "none"]

NoTmy == [exists |-> FALSE, raises |-> FALSE, columns |-> [Index |-> <<>>]]

NoStats == [kind |-> "none"]

NoArgs == [kind |-> "none"]

-----------------------------------------------------------------------------
(* Strategy aggregator: survey_strategy_summary.py                         *)

\* "108 days for 20% survey"
DAYS_FOR_SURVEY == 108

\* total_portfolio = 55389.2 kg/h
total_portfolio == (553892 * Scale) \div 10

\* detection_per_percent = 230.2 kg/h per 1% of portfolio
detection_per_percent == (2302 * Scale) \div 10

\* an aggregator that forgets the coverage factor in the annual detection:
\* mean_detection_per_survey_kgph * (total_portfolio_kgph / 100.0)
calculate_strategy_no_coverage(strategy_name, annual_survey_pct, years, mean_detection_per_survey_kgph, total_portfolio_kgph) ==
    LET annual_detection ==
            MulFP(mean_detection_per_survey_kgph, DivFP(total_portfolio_kgph, 100 * Scale))
        cumulative_detection == annual_detection * years
        days_per_year == MulFP(DivFP(annual_survey_pct, 100 * Scale), DAYS_FOR_SURVEY * Scale)
    IN  IF total_portfolio_kgph = 0
        THEN [raised |-> "ZeroDivisionError"]
        ELSE [raised |-> "no",
              strategy |-> strategy_name,
              annual_survey_pct |-> annual_survey_pct,
              years |-> years,
              days_per_year |-> days_per_year,
              annual_detection_kgph |-> annual_detection,
              annual_mitigation_pct |->
                  DivFP(annual_detection, total_portfolio_kgph) * 100,
              cumulative_detection_5yr_kgph |-> cumulative_detection,
              cumulative_mitigation_5yr_pct |->
                  DivFP(cumulative_detection, total_portfolio_kgph) * 100]

\* Python float division: a zero divisor raises ZeroDivisionError.  years is a plain
\* integer; the other arguments are fixed-point.
calculate_strategy(strategy_name, annual_survey_pct, years, mean_detection_per_survey_kgph, total_portfolio_kgph) ==
    LET annual_detection ==
            MulFP(MulFP(DivFP(annual_survey_pct, 100 * Scale),
                        mean_detection_per_survey_kgph),
                  DivFP(total_portfolio_kgph, 100 * Scale))
        cumulative_detection == annual_detection * years
        days_per_year == MulFP(DivFP(annual_survey_pct, 100 * Scale), DAYS_FOR_SURVEY * Scale)
    IN  IF total_portfolio_kgph = 0
        THEN [raised |-> "ZeroDivisionError"]
        ELSE [raised |-> "no",
              strategy |-> strategy_name,
              annual_survey_pct |-> annual_survey_pct,
              years |-> years,
              days_per_year |-> days_per_year,
              annual_detection_kgph |-> annual_detection,
              annual_mitigation_pct |->
                  DivFP(annual_detection, total_portfolio_kgph) * 100,
              cumulative_detection_5yr_kgph |-> cumulative_detection,
              cumulative_mitigation_5yr_pct |->
                  DivFP(cumulative_detection, total_portfolio_kgph) * 100]

\* the policies main() defines: <<name, annual_pct>>, each over 5 years
strategies ==
    { <<"Status Quo (No LDAR)", 0>>,
      <<"Minimum (5% annual)", 5 * Scale>>,
      <<"Standard (20% annual)", 20 * Scale>>,
      <<"Intensive (40% annual)", 40 * Scale>>,
      <<"Full Portfolio (Rotating)", (333 * Scale) \div 10>> }

\* inputs of calculate_strategy explored by the model
StrategyArgs ==
    [ strategy : strategies,
      years : 1..MaxYears,
      mean_detection : {230 * Scale, detection_per_percent},
      total : {0, 1000 * Scale, total_portfolio} ]

InitStrategy ==
    /\ pc = "call"
    /\ args \in StrategyArgs
    /\ ret = NoResult
    /\ gdf = <<>> /\ tmy = NoTmy /\ cluster_labels = <<>> /\ centroids = <<>>
    /\ stats = NoStats /\ result = NoResult /\ event = NoEvent

CalculateStrategy ==
    /\ pc = "call"
    /\ pc' = "done"
    /\ ret' = calculate_strategy(args.strategy[1], args.strategy[2], args.years,
                                 args.mean_detection, args.total)
    /\ UNCHANGED <<gdf, tmy, cluster_labels, centroids, stats, result, event, args>>

NextStrategy == CalculateStrategy

SpecStrategy == InitStrategy /\ [][NextStrategy]_vars

\* C3: calculate_strategy for 20% annual coverage over 5 years, a yield of 230 kg/h
\* per 1% and a portfolio total of 55,389.2 kg/h returns an annual detection of
\* about 4,604 kg/h (within 1%) and a 5-year cumulative mitigation of about 41.6%
\* (within half a percentage point).
C3_ScenarioD ==
    (/\ pc = "done"
     /\ args.strategy[2] = 20 * Scale /\ args.years = 5
     /\ args.mean_detection = 230 * Scale /\ args.total = total_portfolio)
    => /\ ret.raised = "no"
       /\ Abs(ret.annual_detection_kgph - 4604 * Scale) <= 46 * Scale
       /\ Abs(ret.cumulative_mitigation_5yr_pct - (416 * Scale) \div 10) <= Scale \div 2

\* C11: for a policy with 0% annual coverage, for every horizon in years, every
\* yield and every positive portfolio total, calculate_strategy returns annual
\* detection exactly 0, cumulative detection exactly 0 and mitigation percentages
\* exactly 0.
C11_ZeroCoverageZeroDetection ==
    (pc = "done" /\ args.strategy[2] = 0 /\ args.total > 0) =>
        /\ ret.raised = "no"
        /\ ret.annual_detection_kgph = 0
        /\ ret.cumulative_detection_5yr_kgph = 0
        /\ ret.annual_mitigation_pct = 0
        /\ ret.cumulative_mitigation_5yr_pct = 0

\* C11 witness: the Status Quo policy of main() was evaluated over 5 years on the
\* portfolio total of main()
C11_Witness ==
    /\ pc = "done"
    /\ args.strategy = <<"Status Quo (No LDAR)", 0>>
    /\ args.years = 5
    /\ args.mean_detection = detection_per_percent
    /\ args.total = total_portfolio
    /\ ret.raised = "no"
    /\ ret.annual_detection_kgph = 0

-----------------------------------------------------------------------------
(* The detection model as a pure function                                  *)

\* emission rates (kg/h) and wind speeds (m/s) at which pod_bridger is evaluated
PodEmissions == {-(Scale \div 2), 0, Scale \div 10, Scale \div 2, POD_90_KGPH, 3 * Scale, 50 * Scale}

PodWinds == {0, MIN_WIND_MS, 2 * Scale, BASELINE_WIND_MS, 5 * Scale, MAX_WIND_MS, 9 * Scale}

InitPod ==
    /\ pc = "call"
    /\ args \in [e1 : PodEmissions, e2 : PodEmissions, w1 : PodWinds, w2 : PodWinds]
    /\ ret = NoResult
    /\ gdf = <<>> /\ tmy = NoTmy /\ cluster_labels = <<>> /\ centroids = <<>>
    /\ stats = NoStats /\ result = NoResult /\ event = NoEvent

\* pod_bridger of bridger_spatial_survey.py at (e1, w1), (e1, w2) and (e2, w1)
PodSpatial ==
    /\ pc = "call"
    /\ pc' = "done"
    /\ ret' = [p11 |-> pod_bridger(args.e1, args.w1),
               p12 |-> pod_bridger(args.e1, args.w2),
               p21 |-> pod_bridger(args.e2, args.w1)]
    /\ UNCHANGED <<gdf, tmy, cluster_labels, centroids, stats, result, event, args>>

\* pod_bridger of bridger_survey_realistic.py at the same points
PodRealistic ==
    /\ pc = "call"
    /\ pc' = "done"
    /\ ret' = [p11 |-> pod_bridger_realistic(args.e1, args.w1),
               p12 |-> pod_bridger_realistic(args.e1, args.w2),
               p21 |-> pod_bridger_realistic(args.e2, args.w1)]
    /\ UNCHANGED <<gdf, tmy, cluster_labels, centroids, stats, result, event, args>>

NextPod == PodSpatial \/ PodRealistic

SpecPod == InitPod /\ [][NextPod]_vars

\* C2: for all wind speeds w1 < w2 and every fixed positive emission rate e,
\* pod_bridger(e, w1) >= pod_bridger(e, w2): the detection probability does not
\* increase when the wind speed increases.
C2_PodNonIncreasingInWind ==
    (pc = "done" /\ args.e1 > 0 /\ args.w1 < args.w2) => ret.p11 >= ret.p12

\* C12: pod_bridger returns a value in [0,1] for every emission rate and every wind
\* speed, and returns exactly 0 whenever the emission rate is less than or equal
\* to 0.
C12_PodInUnitInterval ==
    pc = "done" =>
        /\ \A p \in {ret.p11, ret.p12, ret.p21} : 0 <= p /\ p <= Scale
        /\ args.e1 <= 0 => (ret.p11 = 0 /\ ret.p12 = 0)
        /\ args.e2 <= 0 => ret.p21 = 0

\* C12 witness: pod_bridger was evaluated at a negative emission rate and at 50 kg/h
\* in 9 m/s wind, where the probability is within 0.01 of 1
C12_Witness ==
    /\ pc = "done"
    /\ args.e1 < 0 /\ ret.p11 = 0
    /\ args.e2 = 50 * Scale /\ args.w1 = 9 * Scale
    /\ ret.p21 >= Scale - Scale \div 100

\* C13: for all emission rates e1 < e2, both positive, and every fixed wind speed w,
\* pod_bridger(e1, w) <= pod_bridger(e2, w).
C13_PodNonDecreasingInEmission ==
    (pc = "done" /\ 0 < args.e1 /\ args.e1 < args.e2) => ret.p11 <= ret.p21

\* C13 witness: at the baseline wind 0.5 kg/h is detected with a strictly smaller
\* probability than 3 kg/h
C13_Witness ==
    /\ pc = "done"
    /\ args.w1 = BASELINE_WIND_MS
    /\ args.e1 = Scale \div 2 /\ args.e2 = 3 * Scale
    /\ ret.p11 > 0 /\ ret.p11 < ret.p21 /\ ret.p21 < Scale

-----------------------------------------------------------------------------
(* Wind sampler                                                            *)
(*                                                                         *)
(* The TMY file is [exists, raises, columns]: whether the path exists,     *)
(* whether reading or filtering it raises, and its columns (a record from  *)
(* column name to a sequence of cells, each Num(v) or NaN).                *)

\* values of np.random.uniform(low, high), on a grid of WindPoints + 1 points
Uniform(low, high) == { low + ((high - low) * k) \div WindPoints : k \in 0..WindPoints }

\* Series.dropna().values
DropNa(cells) ==
    LET kept == SelectSeq(cells, LAMBDA c : c.k # "nan")
    IN  [i \in 1..Len(kept) |-> kept[i].v]

\* a filter that forgets the upper bound: wind_data[wind_data >= MIN_WIND_MS]
FlyableNoUpperBound(wind_data) ==
    SelectSeq(wind_data, LAMBDA w : w >= MIN_WIND_MS)

\* wind_data[(wind_data >= MIN_WIND_MS) & (wind_data <= MAX_WIND_MS)]
Flyable(wind_data) ==
    SelectSeq(wind_data, LAMBDA w : w >= MIN_WIND_MS /\ w <= MAX_WIND_MS)

\* np.random.choice(flyable)
Choice(flyable) == { flyable[i] : i \in 1..Len(flyable) }

\* The possible returns of sample_wind_from_tmy.  wind_speed is the value returned;
\* source records the branch that produced it and is not part of the return value.
sample_wind_from_tmy(t) ==
    LET fallback == { [wind_speed |-> w, source |-> "uniform"] :
                        w \in Uniform(MIN_WIND_MS, MAX_WIND_MS) }
        from(cells) ==
            LET flyable == Flyable(DropNa(cells))
            IN  IF Len(flyable) = 0 THEN fallback
                ELSE { [wind_speed |-> w, source |-> "series"] : w \in Choice(flyable) }
    IN  IF ~t.exists THEN fallback
        ELSE IF t.raises THEN fallback
        ELSE IF "WindSpeed" \in DOMAIN t.columns THEN from(t.columns.WindSpeed)
        ELSE IF "wind_speed" \in DOMAIN t.columns THEN from(t.columns.wind_speed)
        ELSE fallback

\* wind speeds (m/s) a TMY cell may hold: 0.5, 1, 3.5, 6, 7
WindValues == {Scale \div 2, MIN_WIND_MS, BASELINE_WIND_MS, MAX_WIND_MS, 7 * Scale}

WindCells == {NaN} \cup { Num(w) : w \in WindValues }

WindSeries == UNION { [1..n -> WindCells] : n \in 0..MaxSeriesLen }

\* the series 2, 3, 4, 5, 6, 7, 8 m/s
SeriesC == [i \in 1..7 |-> Num((i + 1) * Scale)]

\* a series with no flyable value
SeriesUnflyable == <<Num(7 * Scale), NaN, Num(Scale \div 2)>>

TmyFiles ==
    { NoTmy, [exists |-> TRUE, raises |-> TRUE, columns |-> [WindSpeed |-> SeriesC]] }
    \cup { [exists |-> TRUE, raises |-> FALSE, columns |-> c] :
             c \in { [WindSpeed |-> s] : s \in WindSeries \cup {SeriesC} }
                   \cup { [wind_speed |-> s] : s \in WindSeries \cup {SeriesC} }
                   \cup { [Temperature |-> s] : s \in {SeriesC} }
                   \cup { [WindSpeed |-> s1, wind_speed |-> s2] :
                            s1 \in {<<>>, SeriesUnflyable}, s2 \in {SeriesC} } }

InitWind ==
    /\ pc = "call"
    /\ tmy \in TmyFiles
    /\ ret = NoResult /\ args = NoArgs
    /\ gdf = <<>> /\ cluster_labels = <<>> /\ centroids = <<>>
    /\ stats = NoStats /\ result = NoResult /\ event = NoEvent

\* a call of bridger_spatial_survey.sample_wind_from_tmy
SampleWind ==
    /\ pc = "call"
    /\ \E o \in sample_wind_from_tmy(tmy) :
         /\ ret' = o.wind_speed
         /\ event' = [kind |-> "wind", source |-> o.source, warned |-> FALSE]
    /\ pc' = "done"
    /\ UNCHANGED <<gdf, tmy, cluster_labels, centroids, stats, result, args>>

\* a call of bridger_survey_realistic.sample_wind_from_tmy: the same branches, each
\* fallback printing a warning first
SampleWindRealistic ==
    /\ pc = "call"
    /\ \E o \in sample_wind_from_tmy(tmy) :
         /\ ret' = o.wind_speed
         /\ event' = [kind |-> "wind", source |-> o.source,
                      warned |-> (o.source = "uniform")]
    /\ pc' = "done"
    /\ UNCHANGED <<gdf, tmy, cluster_labels, centroids, stats, result, args>>

NextWind == SampleWind \/ SampleWindRealistic

SpecWind == InitWind /\ [][NextWind]_vars

\* the cells of the recognised wind column of a file that exists and loads
RecognisedCells(t) ==
    IF ~t.exists \/ t.raises THEN {}
    ELSE IF "WindSpeed" \in DOMAIN t.columns
         THEN { t.columns.WindSpeed[i] : i \in DOMAIN t.columns.WindSpeed }
    ELSE IF "wind_speed" \in DOMAIN t.columns
         THEN { t.columns.wind_speed[i] : i \in DOMAIN t.columns.wind_speed }
    ELSE {}

\* the wind speeds of the series that lie in the flyable envelope
InEnvelope(t) ==
    { c.v : c \in { d \in RecognisedCells(t) :
                      d.k = "num" /\ d.v >= MIN_WIND_MS /\ d.v <= MAX_WIND_MS } }

\* C6: every wind speed returned by sample_wind_from_tmy lies in
\* [MIN_WIND_MS, MAX_WIND_MS]; when the wind series has at least one value inside
\* the envelope, the returned value is a member of the series filtered to the
\* envelope (for 2..8 m/s and bounds [1,6] one of 2..6, never 7 or 8).
C6_WindInEnvelope ==
    pc = "done" =>
        /\ ret >= MIN_WIND_MS /\ ret <= MAX_WIND_MS
        /\ InEnvelope(tmy) # {} => ret \in InEnvelope(tmy)

\* C6 witness: the series 2..8 m/s was sampled and 6 m/s, its largest flyable value,
\* was returned
C6_Witness ==
    /\ pc = "done"
    /\ tmy.exists /\ ~tmy.raises
    /\ tmy.columns = [WindSpeed |-> SeriesC]
    /\ ret = MAX_WIND_MS

\* C7: when the wind series is unavailable, has no recognised column, is empty after
\* filtering or fails to load, sample_wind_from_tmy does not raise, returns a uniform
\* draw from [MIN_WIND_MS, MAX_WIND_MS], and what the caller receives tells a
\* degraded draw from a draw from the series: no draw from any series returns the
\* value a degraded draw returned.
C7_FallbackSignalled ==
    /\ pc \in {"call", "done"}
    /\ (pc = "done" /\ InEnvelope(tmy) = {}) =>
          /\ event.source = "uniform"
          /\ ret \in Uniform(MIN_WIND_MS, MAX_WIND_MS)
          /\ \A t \in TmyFiles : \A o \in sample_wind_from_tmy(t) :
                o.source = "series" => o.wind_speed # ret

-----------------------------------------------------------------------------
(* Spatial clusterer: cluster_wells_dbscan                                 *)
(*                                                                         *)
(* Coordinates are integers in units of 1/CoordScale degree.  Sites are    *)
(* numbered from 1 (numpy index + 1); cluster ids are those of sklearn.    *)

CoordScale == 10^5

\* DBSCAN_EPS_KM = 0.8
DBSCAN_EPS_KM == (8 * Scale) \div 10

DBSCAN_MIN_SAMPLES == 2

\* squared Euclidean distance of two coordinate pairs
Dist2(a, b) == (a[1] - b[1]) * (a[1] - b[1]) + (a[2] - b[2]) * (a[2] - b[2])

\* sklearn radius neighbourhood of point i: the points within eps of it, itself included
Neighborhood(coords, eps, i) ==
    { j \in DOMAIN coords : Dist2(coords[i], coords[j]) <= eps * eps }

\* core samples counted without the point itself: at least min_samples other points
\* in the neighbourhood
CoreSamplesExcludingSelf(coords, eps, min_samples) ==
    { i \in DOMAIN coords :
        Cardinality(Neighborhood(coords, eps, i) \ {i}) >= min_samples }

\* sklearn core samples: at least min_samples points in the neighbourhood
CoreSamples(coords, eps, min_samples) ==
    { i \in DOMAIN coords : Cardinality(Neighborhood(coords, eps, i)) >= min_samples }

RECURSIVE Expand(_, _, _, _)
\* the points a cluster grown from the set S reaches: neighbours of its core points
Expand(coords, eps, cores, S) ==
    LET S2 == S \cup UNION { Neighborhood(coords, eps, k) : k \in S \cap cores }
    IN  IF S2 = S THEN S ELSE Expand(coords, eps, cores, S2)

RECURSIVE DbscanInner(_, _, _, _, _, _)
\* sklearn dbscan_inner: points in index order; an unlabelled core point seeds the
\* next cluster, which takes every still unlabelled point it reaches
DbscanInner(coords, eps, cores, i, labels, label_num) ==
    IF i > Len(coords) THEN labels
    ELSE IF labels[i] # -1 \/ i \notin cores
         THEN DbscanInner(coords, eps, cores, i + 1, labels, label_num)
    ELSE LET reached == Expand(coords, eps, cores, {i})
             labelled == [k \in DOMAIN coords |->
                            IF labels[k] = -1 /\ k \in reached THEN label_num
                            ELSE labels[k]]
         IN  DbscanInner(coords, eps, cores, i + 1, labelled, label_num + 1)

\* DBSCAN(eps, min_samples).fit(coords).labels_
DbscanLabels(coords, eps, min_samples) ==
    DbscanInner(coords, eps, CoreSamples(coords, eps, min_samples), 1,
                [k \in DOMAIN coords |-> -1], 0)

\* coords[mask, axis].mean()
MeanCoord(coords, members, axis) ==
    LET vals == [k \in 1..Len(coords) |-> IF k \in members THEN coords[k][axis] ELSE 0]
    IN  SumSeq(vals) \div Cardinality(members)

\* a clustering that forgets `if cluster_id != -1` and gives the noise label a
\* centroid too
cluster_wells_dbscan_noise_centroid(g, eps_km, min_samples) ==
    LET coords == [i \in 1..Len(g) |-> <<g[i].lat, g[i].lon>>]
        eps_degrees == (eps_km * CoordScale) \div (111 * Scale)
        labels == DbscanLabels(coords, eps_degrees, min_samples)
        ids == { labels[i] : i \in 1..Len(g) }
        members(c) == { i \in 1..Len(g) : labels[i] = c }
    IN  IF Len(g) = 0
        THEN [raised |-> "ValueError", labels |-> <<>>, centroids |-> <<>>]
        ELSE [raised |-> "no",
              labels |-> labels,
              centroids |-> [c \in ids |-> <<MeanCoord(coords, members(c), 1),
                                             MeanCoord(coords, members(c), 2)>>]]

\* cluster_wells_dbscan: [raised, labels, centroids].  DBSCAN.fit rejects an array
\* with no rows with a ValueError.
cluster_wells_dbscan(g, eps_km, min_samples) ==
    LET coords == [i \in 1..Len(g) |-> <<g[i].lat, g[i].lon>>]
        eps_degrees == (eps_km * CoordScale) \div (111 * Scale)
        labels == DbscanLabels(coords, eps_degrees, min_samples)
        ids == { labels[i] : i \in 1..Len(g) } \ {-1}
        members(c) == { i \in 1..Len(g) : labels[i] = c }
    IN  IF Len(g) = 0
        THEN [raised |-> "ValueError", labels |-> <<>>, centroids |-> <<>>]
        ELSE [raised |-> "no",
              labels |-> labels,
              centroids |-> [c \in ids |-> <<MeanCoord(coords, members(c), 1),
                                             MeanCoord(coords, members(c), 2)>>]]

-----------------------------------------------------------------------------
(* Survey simulator of bridger_spatial_survey.py                           *)

\* np.random.binomial(1, p): the outcomes that have positive probability
Bernoulli(p) == IF p <= 0 THEN {0} ELSE IF p >= Scale THEN {1} ELSE {0, 1}

\* the Bernoulli vectors np.random.binomial(1, pods) can return
BinomialDraws(pods) ==
    { d \in [1..Len(pods) -> {0, 1}] : \A k \in 1..Len(pods) : d[k] \in Bernoulli(pods[k]) }

\* gdf[cluster_labels == cluster_id]: the sites of one cluster, in portfolio order
ClusterWells(labels, cluster_id) ==
    SelectSeq([i \in 1..Len(labels) |-> i], LAMBDA i : labels[i] = cluster_id)

RECURSIVE SurveyedWells(_, _)
\* the sites the loop over cluster_id_list evaluates, in the order it evaluates them
SurveyedWells(labels, cluster_id_list) ==
    IF Len(cluster_id_list) = 0 THEN <<>>
    ELSE ClusterWells(labels, Head(cluster_id_list))
         \o SurveyedWells(labels, Tail(cluster_id_list))

\* how often each site of the portfolio occurs among the evaluated sites
Occurrences(n, wells) ==
    [i \in 1..n |-> Cardinality({ k \in 1..Len(wells) : wells[k] = i })]

\* a sum that forgets the detected mask: the emissions of the whole portfolio
DetectedEmissionsUnmasked(g, wells, detected) ==
    SumSeq([k \in 1..Len(g) |-> g[k].e])

\* sum of emission * detected over the evaluated sites
DetectedEmissions(g, wells, detected) ==
    SumSeq([k \in 1..Len(wells) |-> g[wells[k]].e * detected[k]])

\* a simulator that samples the wind again inside the loop: the sites are evaluated
\* with a second draw, and the first draw is the one reported
simulate_quarterly_survey_wind_in_loop(g, labels, cluster_id_list, t) ==
    LET wells == SurveyedWells(labels, cluster_id_list)
        outcome(wind, pod_list, detected) ==
            [result |->
               [clusters_surveyed |-> Len(cluster_id_list),
                wells_surveyed |-> Len(wells),
                emissions_surveyed_kgph |-> SumSeq([k \in 1..Len(wells) |-> g[wells[k]].e]),
                wind_speed_ms |-> wind.wind_speed,
                avg_pod |-> IF Len(pod_list) > 0
                            THEN Num(SumSeq(pod_list) \div Len(pod_list)) ELSE Num(0),
                wells_detected |-> SumSeq(detected),
                emissions_detected_kgph |-> DetectedEmissions(g, wells, detected)],
             event |->
               [kind |-> "survey",
                cluster_id_list |-> cluster_id_list,
                counted |-> Occurrences(Len(g), wells),
                wind_source |-> wind.source,
                wind_draws |-> 1 + Len(cluster_id_list)]]
    IN  UNION { UNION { LET pod_list == [k \in 1..Len(wells) |->
                                           pod_bridger(g[wells[k]].e, again.wind_speed)]
                        IN  { outcome(wind, pod_list, d) : d \in BinomialDraws(pod_list) }
                        : again \in sample_wind_from_tmy(t) }
                : wind \in sample_wind_from_tmy(t) }

\* simulate_quarterly_survey: the set of [result, event] it can produce.  The result
\* is the dict it returns; event records what was drawn and evaluated.
simulate_quarterly_survey(g, labels, cluster_id_list, t) ==
    LET wells == SurveyedWells(labels, cluster_id_list)
        outcome(wind, pod_list, detected) ==
            [result |->
               [clusters_surveyed |-> Len(cluster_id_list),
                wells_surveyed |-> Len(wells),
                emissions_surveyed_kgph |-> SumSeq([k \in 1..Len(wells) |-> g[wells[k]].e]),
                wind_speed_ms |-> wind.wind_speed,
                avg_pod |-> IF Len(pod_list) > 0
                            THEN Num(SumSeq(pod_list) \div Len(pod_list)) ELSE Num(0),
                wells_detected |-> SumSeq(detected),
                emissions_detected_kgph |-> DetectedEmissions(g, wells, detected)],
             event |->
               [kind |-> "survey",
                cluster_id_list |-> cluster_id_list,
                counted |-> Occurrences(Len(g), wells),
                wind_source |-> wind.source,
                wind_draws |-> 1]]
    IN  UNION { LET pod_list == [k \in 1..Len(wells) |->
                                   pod_bridger(g[wells[k]].e, wind.wind_speed)]
                IN  { outcome(wind, pod_list, d) : d \in BinomialDraws(pod_list) }
                : wind \in sample_wind_from_tmy(t) }

\* np.random.choice(population, size, replace=False): [raised, draws].  A draw is
\* kept in increasing order; another order of the same draw only reorders the
\* per-site arrays of an event.
RandomChoice(population, size) ==
    IF size < 0 \/ size > Cardinality(population)
    THEN [raised |-> "ValueError", draws |-> {}]
    ELSE [raised |-> "no",
          draws |-> { s \in [1..size -> population] :
                        \A a, b \in 1..size : a < b => s[a] < s[b] }]

-----------------------------------------------------------------------------
(* main() of bridger_spatial_survey.py                                     *)

\* PERMIAN_QUARTERLY_COVERAGE = 0.20
PERMIAN_QUARTERLY_COVERAGE == (20 * Scale) \div 100

SURVEY_TIME_BASELINE_MIN == 2 * Scale

\* SURVEY_TIME_PER_WELL_MIN = 0.5
SURVEY_TIME_PER_WELL_MIN == (5 * Scale) \div 10

N_QUARTERS == 4

\* a float main() has not computed yet
None == [k |-> "none", v |-> 0]

estimate_survey_time_per_cluster(labels, cluster_id) ==
    LET n_wells == Cardinality({ i \in 1..Len(labels) : labels[i] = cluster_id })
    IN  SURVEY_TIME_BASELINE_MIN + n_wells * SURVEY_TIME_PER_WELL_MIN

\* 0.1 km and 5 km in coordinate units
KmToCoord(km) == (km * CoordScale) \div (111 * Scale)

\* emission rates (kg/h) given to the sites of a portfolio, in turn: 3, 0.5, 0, 1.27
EmissionCycle == <<3 * Scale, Scale \div 2, 0, POD_90_KGPH>>

\* A portfolio of n_pairs pairs of sites 0.1 km apart, the pairs 5 km from each
\* other, followed by n_noise sites 5 km from everything else.
MakePortfolio(n_pairs, n_noise, all_zero) ==
    [i \in 1..(2 * n_pairs + n_noise) |->
        [lat |-> IF i <= 2 * n_pairs
                 THEN 40 * CoordScale + ((i - 1) \div 2) * KmToCoord(5 * Scale)
                      + ((i - 1) % 2) * KmToCoord(Scale \div 10)
                 ELSE 40 * CoordScale,
         lon |-> IF i <= 2 * n_pairs THEN 0
                 ELSE (i - 2 * n_pairs) * KmToCoord(5 * Scale),
         e   |-> IF all_zero THEN 0 ELSE EmissionCycle[((i - 1) % Len(EmissionCycle)) + 1]]]

Portfolios ==
    { MakePortfolio(p, n, z) : p \in 0..MaxPairs, n \in 0..MaxNoise, z \in BOOLEAN }

\* the TMY files the survey runs are started with
SurveyTmyFiles ==
    { NoTmy,
      [exists |-> TRUE, raises |-> FALSE,
       columns |-> [WindSpeed |-> <<Num(BASELINE_WIND_MS), Num(7 * Scale)>>]] }

\* the emissions frames the flat survey run is started with: wells without
\* neighbours, since that run reads the emission column only
EmissionFrames ==
    { MakePortfolio(0, n, z) : n \in 0..MaxWells, z \in BOOLEAN }

\* pc = "start": bridger_spatial_survey.py; pc = "r_start": bridger_survey_realistic.py
Init ==
    /\ \/ pc = "start" /\ gdf \in Portfolios
       \/ pc = "r_start" /\ gdf \in EmissionFrames
    /\ tmy \in SurveyTmyFiles
    /\ cluster_labels = <<>> /\ centroids = <<>>
    /\ stats = NoStats
    /\ result = NoResult /\ event = NoEvent
    /\ args = NoArgs /\ ret = NoResult

\* main(), lines 207-226: portfolio total, clustering, cluster statistics
ClusterPortfolio ==
    /\ pc = "start"
    /\ LET c == cluster_wells_dbscan(gdf, DBSCAN_EPS_KM, DBSCAN_MIN_SAMPLES)
           total_emissions == SumSeq([i \in 1..Len(gdf) |-> gdf[i].e])
           n_clusters == Cardinality(DOMAIN c.centroids)
           n_noise == Cardinality({ i \in 1..Len(c.labels) : c.labels[i] = -1 })
       IN  IF c.raised # "no"
           THEN /\ pc' = c.raised
                /\ UNCHANGED <<cluster_labels, centroids, stats>>
           ELSE /\ pc' = "clustered"
                /\ cluster_labels' = c.labels
                /\ centroids' = c.centroids
                /\ stats' = [total_emissions |-> total_emissions,
                             n_clusters |-> n_clusters,
                             n_noise |-> n_noise,
                             avg_wells_per_cluster |->
                                 IF n_clusters > 0
                                 THEN DivFP((Len(gdf) - n_noise) * Scale, n_clusters * Scale)
                                 ELSE 0,
                             total_survey_time |-> 0,
                             avg_survey_time |-> 0,
                             quarterly_clusters |-> 0,
                             days_per_quarter |-> 0,
                             timeline_years |-> None,
                             quarter |-> 0,
                             mitigation_pct |-> None,
                             total_detected |-> 0,
                             annual_mitigation |-> None,
                             avg_quarterly |-> None]
    /\ UNCHANGED <<gdf, tmy, result, event, args, ret>>

\* main(), lines 229-245: survey time and the quarterly schedule
SurveyMetrics ==
    /\ pc = "clustered"
    /\ LET n_clusters == stats.n_clusters
           total_survey_time ==
               SumSeq([k \in 1..Cardinality(DOMAIN centroids) |->
                         estimate_survey_time_per_cluster(cluster_labels, k - 1)])
           avg_survey_time ==
               IF n_clusters > 0 THEN DivFP(total_survey_time, n_clusters * Scale) ELSE 0
           quarterly_clusters ==
               (n_clusters * PERMIAN_QUARTERLY_COVERAGE) \div Scale
           time_per_quarter == DivFP(quarterly_clusters * avg_survey_time, 60 * Scale)
       IN  stats' = [stats EXCEPT
                       !.total_survey_time = total_survey_time,
                       !.avg_survey_time = avg_survey_time,
                       !.quarterly_clusters = quarterly_clusters,
                       !.days_per_quarter = DivFP(time_per_quarter, 8 * Scale),
                       !.timeline_years =
                           IF quarterly_clusters > 0
                           THEN Num(DivFP(n_clusters * PERMIAN_QUARTERLY_COVERAGE,
                                          DivFP(quarterly_clusters * Scale, 4 * Scale)))
                           ELSE Inf]
    /\ pc' = "quarters"
    /\ UNCHANGED <<gdf, tmy, cluster_labels, centroids, result, event, args, ret>>

\* a quarter that retires the clusters it surveyed: their centroids are deleted, so
\* a later quarter cannot select them again
QuarterRetiringSurveyed ==
    /\ pc = "quarters"
    /\ stats.quarter < N_QUARTERS
    /\ LET cluster_ids == DOMAIN centroids
           choice == RandomChoice(cluster_ids, stats.quarterly_clusters)
       IN  IF choice.raised # "no"
           THEN /\ pc' = choice.raised
                /\ UNCHANGED <<stats, result, event, centroids>>
           ELSE \E selected_clusters \in choice.draws :
                \E o \in simulate_quarterly_survey(gdf, cluster_labels, selected_clusters, tmy) :
                  /\ result' = o.result
                  /\ event' = [o.event EXCEPT !.kind = "quarter"]
                  /\ stats' = [stats EXCEPT
                                 !.quarter = @ + 1,
                                 !.mitigation_pct =
                                     NpDivide(100 * o.result.emissions_detected_kgph,
                                              stats.total_emissions),
                                 !.total_detected = @ + o.result.emissions_detected_kgph]
                  /\ centroids' =
                        [c \in cluster_ids \ { selected_clusters[k] :
                                                  k \in 1..Len(selected_clusters) }
                           |-> centroids[c]]
                  /\ pc' = "quarters"
    /\ UNCHANGED <<gdf, tmy, cluster_labels, args, ret>>

\* main(), lines 284-306: one quarter.  The clusters are chosen among the centroid
\* keys without replacement, surveyed, and the event's mitigation is derived.
Quarter ==
    /\ pc = "quarters"
    /\ stats.quarter < N_QUARTERS
    /\ LET cluster_ids == DOMAIN centroids
           choice == RandomChoice(cluster_ids, stats.quarterly_clusters)
       IN  IF choice.raised # "no"
           THEN /\ pc' = choice.raised
                /\ UNCHANGED <<stats, result, event>>
           ELSE \E selected_clusters \in choice.draws :
                \E o \in simulate_quarterly_survey(gdf, cluster_labels, selected_clusters, tmy) :
                  /\ result' = o.result
                  /\ event' = [o.event EXCEPT !.kind = "quarter"]
                  /\ stats' = [stats EXCEPT
                                 !.quarter = @ + 1,
                                 !.mitigation_pct =
                                     NpDivide(100 * o.result.emissions_detected_kgph,
                                              stats.total_emissions),
                                 !.total_detected = @ + o.result.emissions_detected_kgph]
                  /\ pc' = "quarters"
    /\ UNCHANGED <<gdf, tmy, cluster_labels, centroids, args, ret>>

\* main(), lines 308-316: the annual summary over the four quarters
AnnualSummary ==
    /\ pc = "quarters"
    /\ stats.quarter = N_QUARTERS
    /\ stats' = [stats EXCEPT
                   !.annual_mitigation = NpDivide(100 * stats.total_detected,
                                                  stats.total_emissions),
                   !.avg_quarterly = Num(DivFP(stats.total_detected, 4 * Scale))]
    /\ pc' = "done"
    /\ UNCHANGED <<gdf, tmy, cluster_labels, centroids, result, event, args, ret>>

\* cluster id lists a direct caller may pass: ids of the first two clusters and the
\* noise label, repeated or not
ClusterIdLists ==
    UNION { [1..n -> (DOMAIN centroids \cap {0, 1}) \cup {-1}] : n \in 0..MaxListLen }

\* a direct call of simulate_quarterly_survey on the clustered portfolio
SimulateQuarterlySurveyCall ==
    /\ pc = "clustered"
    /\ \E cluster_id_list \in ClusterIdLists :
       \E o \in simulate_quarterly_survey(gdf, cluster_labels, cluster_id_list, tmy) :
         /\ result' = o.result
         /\ event' = o.event
    /\ pc' = "called"
    /\ UNCHANGED <<gdf, tmy, cluster_labels, centroids, stats, args, ret>>

-----------------------------------------------------------------------------
(* Survey simulator and main() of bridger_survey_realistic.py              *)

\* SURVEY_COVERAGE_PCT = 0.20
SURVEY_COVERAGE_PCT == (20 * Scale) \div 100

N_ITERATIONS == 5

\* int(x) of a fixed-point x: truncation towards zero
IntOf(x) == IF x >= 0 THEN x \div Scale ELSE -((-x) \div Scale)

\* simulate_survey: [raised, outcomes], outcomes the set of [result, event] it can
\* produce.  np.random.choice raises before the wind is sampled.
simulate_survey(emissions_df, coverage_pct, t) ==
    LET n_wells == Len(emissions_df)
        n_survey == IntOf(n_wells * coverage_pct)
        choice == RandomChoice(1..n_wells, n_survey)
        outcome(survey_indices, wind, pods, detected) ==
            [result |->
               [wind_speed_ms |-> wind.wind_speed,
                pods |-> pods,
                detected |-> detected,
                emissions_sampled |->
                    SumSeq([k \in 1..Len(survey_indices) |-> emissions_df[survey_indices[k]].e]),
                emissions_detected |-> DetectedEmissions(emissions_df, survey_indices, detected),
                wells_sampled |-> Len(survey_indices),
                wells_detected |-> SumSeq(detected),
                avg_pod |-> IF Len(pods) = 0 THEN NaN
                            ELSE Num(SumSeq(pods) \div Len(pods))],
             event |->
               [kind |-> "survey",
                cluster_id_list |-> <<>>,
                counted |-> Occurrences(n_wells, survey_indices),
                wind_source |-> wind.source,
                wind_draws |-> 1]]
    IN  IF choice.raised # "no"
        THEN [raised |-> choice.raised, outcomes |-> {}]
        ELSE [raised |-> "no",
              outcomes |->
                UNION { UNION { LET pods == [k \in 1..Len(idx) |->
                                      pod_bridger_realistic(emissions_df[idx[k]].e,
                                                            wind.wind_speed)]
                                IN  { outcome(idx, wind, pods, d) : d \in BinomialDraws(pods) }
                                : wind \in sample_wind_from_tmy(t) }
                        : idx \in choice.draws }]

\* a survey event that raised before producing a result
FailedEvent(n) ==
    [kind |-> "failed", cluster_id_list |-> <<>>, counted |-> [i \in 1..n |-> 0],
     wind_source |-> "none", wind_draws |-> 0]

\* main(), lines 176-190: one iteration of the loop.  The report line divides
\* wells_detected by wells_sampled as Python integers.
RealisticIteration ==
    /\ pc \in {"r_start", "r_loop"}
    /\ LET st == IF pc = "r_start"
                 THEN [total_emissions |-> SumSeq([i \in 1..Len(gdf) |-> gdf[i].e]),
                       iteration |-> 0,
                       mitigation_pct |-> None,
                       total_detected |-> 0,
                       mean_mitigation |-> None]
                 ELSE stats
           s == simulate_survey(gdf, SURVEY_COVERAGE_PCT, tmy)
       IN  /\ st.iteration < N_ITERATIONS
           /\ IF s.raised # "no"
              THEN /\ pc' = s.raised
                   /\ stats' = st
                   /\ event' = FailedEvent(Len(gdf))
                   /\ UNCHANGED result
              ELSE \E o \in s.outcomes :
                     /\ result' = o.result
                     /\ event' = [o.event EXCEPT !.kind = "iteration"]
                     /\ stats' = [st EXCEPT
                                    !.iteration = @ + 1,
                                    !.mitigation_pct =
                                        NpDivide(100 * o.result.emissions_detected,
                                                 st.total_emissions),
                                    !.total_detected = @ + o.result.emissions_detected]
                     /\ pc' = IF o.result.wells_sampled = 0
                              THEN "ZeroDivisionError" ELSE "r_loop"
    /\ UNCHANGED <<gdf, tmy, cluster_labels, centroids, args, ret>>

\* main(), lines 192-206: the summary over the iterations
RealisticSummary ==
    /\ pc = "r_loop"
    /\ stats.iteration = N_ITERATIONS
    /\ stats' = [stats EXCEPT
                   !.mean_mitigation =
                       NpDivide(100 * DivFP(stats.total_detected, N_ITERATIONS * Scale),
                                stats.total_emissions)]
    /\ pc' = "r_done"
    /\ UNCHANGED <<gdf, tmy, cluster_labels, centroids, result, event, args, ret>>

\* coverage fractions a direct caller may pass: -0.5, 0, 0.2, 0.5, 1, 1.5
Coverages ==
    {-(Scale \div 2), 0, SURVEY_COVERAGE_PCT, Scale \div 2, Scale, (3 * Scale) \div 2}

\* a direct call of simulate_survey on the emissions frame
SimulateSurveyCall ==
    /\ pc = "r_start"
    /\ \E coverage_pct \in Coverages :
         LET s == simulate_survey(gdf, coverage_pct, tmy)
         IN  /\ args' = [coverage_pct |-> coverage_pct]
             /\ IF s.raised # "no"
                THEN /\ pc' = s.raised
                     /\ event' = FailedEvent(Len(gdf))
                     /\ UNCHANGED result
                ELSE \E o \in s.outcomes :
                       /\ result' = o.result
                       /\ event' = o.event
                       /\ pc' = "r_called"
    /\ UNCHANGED <<gdf, tmy, cluster_labels, centroids, stats, ret>>

-----------------------------------------------------------------------------

Next ==
    \/ ClusterPortfolio
    \/ SurveyMetrics
    \/ Quarter
    \/ AnnualSummary
    \/ SimulateQuarterlySurveyCall
    \/ RealisticIteration
    \/ RealisticSummary
    \/ SimulateSurveyCall

Spec == Init /\ [][Next]_vars

-----------------------------------------------------------------------------
(* Properties of the survey runs                                           *)

\* the last event returned a result dict of simulate_quarterly_survey
SpatialResult == result # NoResult /\ "clusters_surveyed" \in DOMAIN result

\* the last event returned a result dict of simulate_survey
FlatResult == result # NoResult /\ "wells_sampled" \in DOMAIN result

\* the sites the last event evaluated at least once
Counted == { i \in 1..Len(gdf) : event.counted[i] > 0 }

\* C1: in every survey event result of simulate_survey (non-negative emission
\* rates, any coverage fraction) and of simulate_quarterly_survey (any list of
\* cluster ids), emissions detected <= emissions sampled and wells detected <=
\* wells sampled.
C1_DetectedWithinSampled ==
    /\ FlatResult =>
          /\ result.emissions_detected <= result.emissions_sampled
          /\ result.wells_detected <= result.wells_sampled
    /\ SpatialResult =>
          /\ result.emissions_detected_kgph <= result.emissions_surveyed_kgph
          /\ result.wells_detected <= result.wells_surveyed

\* C1 witness: a direct call surveyed cluster 0 twice and detected some, not all, of
\* what it sampled
C1_Witness ==
    /\ pc = "called" /\ SpatialResult
    /\ event.cluster_id_list = <<0, 0>>
    /\ 0 < result.wells_detected /\ result.wells_detected < result.wells_surveyed
    /\ 0 < result.emissions_detected_kgph
    /\ result.emissions_detected_kgph < result.emissions_surveyed_kgph

\* C4: within one survey event no site is counted more than once: simulate_survey
\* selects its floor(n_wells * coverage) wells without replacement (the size is
\* compared for the coverage fractions >= 0), and simulate_quarterly_survey, for
\* every cluster id list it is given, counts each site at most once in wells
\* surveyed, emissions surveyed, wells detected and emissions detected.
C4_NoSiteCountedTwice ==
    /\ FlatResult =>
          /\ \A i \in 1..Len(gdf) : event.counted[i] <= 1
          /\ (pc = "r_called" /\ args.coverage_pct >= 0) =>
                result.wells_sampled = (Len(gdf) * args.coverage_pct) \div Scale
    /\ SpatialResult =>
          /\ \A i \in 1..Len(gdf) : event.counted[i] <= 1
          /\ result.wells_surveyed = Cardinality(Counted)
          /\ result.emissions_surveyed_kgph =
                 SumSeq([i \in 1..Len(gdf) |-> IF i \in Counted THEN gdf[i].e ELSE 0])

\* C5: after cluster_wells_dbscan every site carries exactly one label; the noise
\* label -1 has no centroid, the centroid keys are the labels other than -1, and in
\* every quarter of the spatial run the selected clusters are centroid keys, so no
\* noise site is surveyed.
C5_NoiseNeverSurveyed ==
    pc \in {"clustered", "quarters", "done", "called"} =>
        /\ DOMAIN cluster_labels = 1..Len(gdf)
        /\ -1 \notin DOMAIN centroids
        /\ DOMAIN centroids = { cluster_labels[i] : i \in 1..Len(gdf) } \ {-1}
        /\ event.kind = "quarter" =>
              /\ \A k \in 1..Len(event.cluster_id_list) :
                    event.cluster_id_list[k] \in DOMAIN centroids
              /\ \A i \in 1..Len(gdf) : cluster_labels[i] = -1 => event.counted[i] = 0

\* C5 witness: a quarter surveyed sites of a portfolio that has a noise site
C5_Witness ==
    /\ pc = "quarters" /\ event.kind = "quarter"
    /\ \E i \in 1..Len(gdf) : cluster_labels[i] = -1
    /\ result.wells_surveyed > 0

\* C8: a simulation over an empty selection yields a zero-filled result with no NaN:
\* zero wells, zero emissions sampled, zero emissions detected, mean probability 0.
C8_EmptySelectionZeroFilled ==
    /\ (SpatialResult /\ result.wells_surveyed = 0) =>
          /\ result.emissions_surveyed_kgph = 0
          /\ result.emissions_detected_kgph = 0
          /\ result.wells_detected = 0
          /\ result.avg_pod = Num(0)
    /\ (FlatResult /\ result.wells_sampled = 0) =>
          /\ result.emissions_sampled = 0
          /\ result.emissions_detected = 0
          /\ result.wells_detected = 0
          /\ result.avg_pod = Num(0)

\* C9: divisions by zero yield the sentinel 0.0: with zero clusters the average
\* wells per cluster and average survey time are 0, and with zero total portfolio
\* emissions every mitigation percentage the runs compute is 0.0.
C9_DivisionByZeroGuarded ==
    /\ (pc \in {"clustered", "quarters", "done", "called"} /\ stats.n_clusters = 0) =>
          /\ stats.avg_wells_per_cluster = 0
          /\ stats.avg_survey_time = 0
    /\ (pc \in {"quarters", "done"} /\ stats.total_emissions = 0) =>
          /\ stats.mitigation_pct \in {None, Num(0)}
          /\ stats.annual_mitigation \in {None, Num(0)}
    /\ (pc \in {"r_loop", "r_done"} /\ stats.total_emissions = 0) =>
          /\ stats.mitigation_pct \in {None, Num(0)}
          /\ stats.mean_mitigation \in {None, Num(0)}

\* C10: a coverage fraction outside (0,1] passed to simulate_survey is rejected with
\* an error before any well is selected, any wind is drawn or any detection is
\* computed; it never produces a result.
C10_CoverageValidated ==
    (args # NoArgs /\ "coverage_pct" \in DOMAIN args
       /\ (args.coverage_pct <= 0 \/ args.coverage_pct > Scale)) =>
        /\ pc = "ValueError"
        /\ result = NoResult
        /\ event.wind_draws = 0
        /\ \A i \in 1..Len(gdf) : event.counted[i] = 0

\* C14: cluster_wells_dbscan on an empty portfolio returns zero clusters and zero
\* noise sites (empty labels, empty centroids) without raising an error: the
\* clustering step of a run on an empty portfolio ends clustered, with no label, no
\* centroid, and cluster and noise counts of 0.
C14_EmptyPortfolioClusters ==
    [][(pc = "start" /\ Len(gdf) = 0) =>
          /\ pc' = "clustered"
          /\ cluster_labels' = <<>>
          /\ DOMAIN centroids' = {}
          /\ stats'.n_clusters = 0
          /\ stats'.n_noise = 0]_vars

\* the sites the last event of simulate_survey selected, in the order of its arrays
SelectedWells == SelectSeq([i \in 1..Len(gdf) |-> i], LAMBDA i : event.counted[i] > 0)

\* C15: within one survey event exactly one wind speed is drawn; the detection
\* probability of every site in every selected unit is computed with that value,
\* and that value is the wind speed reported in the event result.
C15_OneWindPerEvent ==
    /\ FlatResult =>
          /\ event.wind_draws = 1
          /\ result.pods =
                [k \in 1..Len(SelectedWells) |->
                   pod_bridger_realistic(gdf[SelectedWells[k]].e, result.wind_speed_ms)]
    /\ SpatialResult =>
          /\ event.wind_draws = 1
          /\ LET wells == SurveyedWells(cluster_labels, event.cluster_id_list)
                 pods == [k \in 1..Len(wells) |->
                            pod_bridger(gdf[wells[k]].e, result.wind_speed_ms)]
             IN  result.avg_pod = IF Len(wells) > 0
                                  THEN Num(SumSeq(pods) \div Len(wells)) ELSE Num(0)

\* C15 witness: a direct call surveyed clusters 0 and 1 in 3.5 m/s wind sampled from
\* the series, with a mean probability strictly between 0 and 1
C15_Witness ==
    /\ pc = "called" /\ SpatialResult
    /\ event.cluster_id_list = <<0, 1>>
    /\ event.wind_source = "series"
    /\ result.wind_speed_ms = BASELINE_WIND_MS
    /\ result.wells_surveyed = 4
    /\ result.avg_pod.v > 0 /\ result.avg_pod.v < Scale

\* C17: clusters are computed once and then only read: the portfolio never changes,
\* and every step after the clustering step - each quarterly event of the spatial
\* run, each iteration of the realistic run, each direct call of
\* simulate_quarterly_survey and simulate_survey - leaves the cluster labels and
\* the centroids unchanged.
C17_ClustersOnlyRead ==
    [][/\ gdf' = gdf
       /\ pc # "start" => (cluster_labels' = cluster_labels /\ centroids' = centroids)]_vars

\* C17 witness: the four quarterly events of a spatial run are over, the last one
\* surveyed a cluster, and every site still carries its label
C17_Witness ==
    /\ pc = "done"
    /\ stats.quarter = N_QUARTERS
    /\ event.kind = "quarter"
    /\ result.wells_surveyed > 0
    /\ Len(gdf) > 0 /\ Len(cluster_labels) = Len(gdf)
    /\ Cardinality(DOMAIN centroids) = stats.n_clusters

-----------------------------------------------------------------------------
(* The clusterer as a pure function                                        *)

\* the largest number of sites of a portfolio given to the clusterer
MaxSites == 4

\* the sites lie on a line, at multiples of 0.5 km from its start
SitePositions == 0..3

\* a site at position k of the line
SiteAt(k) == [lat |-> 40 * CoordScale + k * KmToCoord(Scale \div 2), lon |-> 0, e |-> Scale]

\* the portfolios given to the clusterer: up to MaxSites sites on the line, and the
\* two pairs 0.1 km apart, 5 km from each other
ClusterPortfolios ==
    UNION { { [i \in 1..n |-> SiteAt(f[i])] : f \in [1..n -> SitePositions] } : n \in 0..MaxSites }
    \cup { MakePortfolio(2, 0, FALSE) }

\* the eps_km (0.4 and 0.8 km) and min_samples arguments given to the clusterer
ClusterArgs == [eps_km : {(4 * Scale) \div 10, DBSCAN_EPS_KM}, min_samples : 1..3]

InitCluster ==
    /\ pc = "call"
    /\ gdf \in ClusterPortfolios
    /\ args \in ClusterArgs
    /\ cluster_labels = <<>> /\ centroids = <<>>
    /\ tmy = NoTmy /\ stats = NoStats /\ result = NoResult /\ event = NoEvent
    /\ ret = NoResult

\* a call of cluster_wells_dbscan
ClusterCall ==
    /\ pc = "call"
    /\ LET c == cluster_wells_dbscan(gdf, args.eps_km, args.min_samples)
       IN  IF c.raised # "no"
           THEN /\ pc' = c.raised
                /\ UNCHANGED <<cluster_labels, centroids>>
           ELSE /\ pc' = "done"
                /\ cluster_labels' = c.labels
                /\ centroids' = c.centroids
    /\ UNCHANGED <<gdf, tmy, stats, result, event, args, ret>>

NextCluster == ClusterCall

SpecCluster == InitCluster /\ [][NextCluster]_vars

\* the radius eps_km / 111 degrees, in coordinate units
Radius == (args.eps_km * CoordScale) \div (111 * Scale)

\* sites i and j lie within the radius of each other
WithinRadius(i, j) ==
    LET dlat == gdf[i].lat - gdf[j].lat
        dlon == gdf[i].lon - gdf[j].lon
    IN  dlat * dlat + dlon * dlon <= Radius * Radius

\* the core points: at least min_samples sites, the site itself included, lie within
\* the radius
CorePoints ==
    { i \in 1..Len(gdf) :
        Cardinality({ j \in 1..Len(gdf) : WithinRadius(i, j) }) >= args.min_samples }

\* C16: cluster_wells_dbscan follows DBSCAN semantics with radius eps_km/111 degrees:
\* a site is labelled noise (-1) exactly when it is not a core point and not within
\* the radius of any core point; core points within the radius of each other share
\* a cluster; and the two pairs 0.1 km apart, 5 km from each other, with radius
\* 0.8 km and min_samples 2 give exactly 2 clusters and 0 noise.
C16_DbscanSemantics ==
    pc = "done" =>
        /\ \A i \in 1..Len(gdf) :
              cluster_labels[i] = -1 <=>
                  (i \notin CorePoints /\ \A j \in CorePoints : ~WithinRadius(i, j))
        /\ \A i, j \in CorePoints :
              WithinRadius(i, j) => cluster_labels[i] = cluster_labels[j]
        /\ (gdf = MakePortfolio(2, 0, FALSE) /\ args.eps_km = DBSCAN_EPS_KM
               /\ args.min_samples = 2) =>
              /\ Cardinality(DOMAIN centroids) = 2
              /\ \A i \in 1..Len(gdf) : cluster_labels[i] # -1

\* C16 witness: the two pairs were clustered with radius 0.8 km and min_samples 2
\* into clusters 0 and 1
C16_Witness ==
    /\ pc = "done"
    /\ gdf = MakePortfolio(2, 0, FALSE)
    /\ args = [eps_km |-> DBSCAN_EPS_KM, min_samples |-> 2]
    /\ cluster_labels = <<0, 0, 1, 1>>
    /\ DOMAIN centroids = {0, 1}

=============================================================================
